---- MODULE Spec2Model ----
(***************************************************************************)
(* MoneyPlant: a console financial assistant whose reminder commands are   *)
(* recognised by regular expressions (src/app.py).  The model keeps the    *)
(* text at character level: a Python str is a sequence of one-character    *)
(* strings, the regular expressions of the source are written as syntax    *)
(* trees and run by a backtracking matcher that tries the alternatives in  *)
(* the order Python's re module tries them.                                *)
(***************************************************************************)
EXTENDS Integers, Sequences, FiniteSets, TLC

(***************************************************************************)
(* Python str                                                              *)
(***************************************************************************)

\* A string literal as the sequence of its characters.
Chars(str) == [i \in 1..Len(str) |-> SubSeq(str, i, i)]

\* The characters of a sequence joined back into a string.
RECURSIVE Str(_)
Str(cs) ==
    IF cs = <<>> THEN ""
    ELSE IF Len(cs) = 1 THEN cs[1]
    ELSE Str(SubSeq(cs, 1, Len(cs) \div 2)) \o Str(SubSeq(cs, Len(cs) \div 2 + 1, Len(cs)))

Lowers == Chars("abcdefghijklmnopqrstuvwxyz")
Uppers == Chars("ABCDEFGHIJKLMNOPQRSTUVWXYZ")
Digits == Chars("0123456789")

LowerSet == {Lowers[i] : i \in 1..26}
UpperSet == {Uppers[i] : i \in 1..26}
DigitSet == {Digits[i] : i \in 1..10}

\* \s of re: the white space the console can deliver within a line.
SpaceSet == {" ", "\t"}
\* \w of re.
WordSet == LowerSet \cup UpperSet \cup DigitSet \cup {"_"}

\* str.lower() on one character.
LowerCh(c) == IF c \in UpperSet THEN Lowers[CHOOSE i \in 1..26 : Uppers[i] = c] ELSE c
\* str.upper() on one character.
UpperCh(c) == IF c \in LowerSet THEN Uppers[CHOOSE i \in 1..26 : Lowers[i] = c] ELSE c

\* str.lower()
lower(cs) == [i \in 1..Len(cs) |-> LowerCh(cs[i])]

\* needle in hay (substring test of Python's `in` on str)
IsSubstr(needle, hay) ==
    \E i \in 1..(Len(hay) - Len(needle) + 1) : SubSeq(hay, i, i + Len(needle) - 1) = needle

\* str.strip(chars): leading and trailing characters of the set removed.
RECURSIVE LStrip(_, _)
LStrip(cs, set) == IF cs # <<>> /\ cs[1] \in set THEN LStrip(Tail(cs), set) ELSE cs
RECURSIVE RStrip(_, _)
RStrip(cs, set) ==
    IF cs # <<>> /\ cs[Len(cs)] \in set THEN RStrip(SubSeq(cs, 1, Len(cs) - 1), set) ELSE cs
strip(cs, set) == RStrip(LStrip(cs, set), set)

\* str.replace(old, new) for a one-character old.
replace(cs, old, new) == [i \in 1..Len(cs) |-> IF cs[i] = old THEN new ELSE cs[i]]

\* int(str): the decimal value of a string of digits.
DigitVal(c) == (CHOOSE i \in 1..10 : Digits[i] = c) - 1
RECURSIVE int(_)
int(cs) == IF cs = <<>> THEN 0 ELSE 10 * int(SubSeq(cs, 1, Len(cs) - 1)) + DigitVal(cs[Len(cs)])
\* Whether int(str) succeeds: a non-empty string of digits (no sign or blank occurs here).
IsInt(cs) == cs # <<>> /\ \A i \in 1..Len(cs) : cs[i] \in DigitSet

(***************************************************************************)
(* Python re: syntax trees and the backtracking matcher                    *)
(***************************************************************************)

Lit(str) == [t |-> "lit", w |-> Chars(str)]
\* a pattern made of the characters of a str that holds no special character
LitCs(cs) == [t |-> "lit", w |-> cs]
In(set) == [t |-> "set", cs |-> set, neg |-> FALSE]
Dot == [t |-> "set", cs |-> {"\n"}, neg |-> TRUE]
Seq_(rs) == [t |-> "seq", rs |-> rs]
Alt(rs) == [t |-> "alt", rs |-> rs]
\* max = -1: unbounded
Rep(r, min, max, greedy) == [t |-> "rep", r |-> r, min |-> min, max |-> max, greedy |-> greedy]
Star(r) == Rep(r, 0, -1, TRUE)
Plus(r) == Rep(r, 1, -1, TRUE)
PlusLazy(r) == Rep(r, 1, -1, FALSE)
Opt(r) == Rep(r, 0, 1, TRUE)
Grp(k, r) == [t |-> "grp", k |-> k, r |-> r]
Eos == [t |-> "eos"]
WordB == [t |-> "wb"]
\* w1|w2|... of literal words
Words(strs) == Alt([i \in 1..Len(strs) |-> Lit(strs[i])])

NoGroups == <<<<0, 0>>, <<0, 0>>>>
NoMatch == [ok |-> FALSE]

IsWordAt(s, i) == i >= 1 /\ i <= Len(s) /\ s[i] \in WordSet

\* The length of the longest run of characters of r (a "set") in s from position i.
RunLength(r, s, i) ==
    LET stop == CHOOSE j \in i..(Len(s) + 1) :
                    /\ j = Len(s) + 1 \/ ((s[j] \in r.cs) = r.neg)
                    /\ \A k \in i..(j - 1) : (s[k] \in r.cs) # r.neg
    IN  stop - i

Least(set) == CHOOSE x \in set : \A y \in set : x <= y
Greatest(set) == CHOOSE x \in set : \A y \in set : y <= x

\* The backtracking matcher.  st is the stack of what is still to be matched from
\* position i of s (syntax trees, and the closing marks of the open groups); c holds
\* the groups matched so far.  The result is the first complete match in the order
\* re tries them: alternatives left to right, a greedy repetition longest first, a
\* lazy one shortest first.
RECURSIVE Match(_, _, _, _, _)
RECURSIVE MatchAlt(_, _, _, _, _, _, _)
Match(st, s, i, c, ic) ==
    IF st = <<>> THEN [ok |-> TRUE, e |-> i, c |-> c]
    ELSE LET r == st[1]
             rest == Tail(st)
         IN  CASE r.t = "lit" ->
                    IF /\ i + Len(r.w) - 1 <= Len(s)
                       /\ \A j \in 1..Len(r.w) :
                             IF ic THEN LowerCh(s[i + j - 1]) = LowerCh(r.w[j])
                             ELSE s[i + j - 1] = r.w[j]
                    THEN Match(rest, s, i + Len(r.w), c, ic) ELSE NoMatch
               [] r.t = "set" ->
                    IF i <= Len(s) /\ ((s[i] \in r.cs) # r.neg)
                    THEN Match(rest, s, i + 1, c, ic) ELSE NoMatch
               [] r.t = "seq" -> Match(r.rs \o rest, s, i, c, ic)
               [] r.t = "alt" -> MatchAlt(r.rs, 1, rest, s, i, c, ic)
               [] r.t = "rep" /\ r.r.t = "set" ->
                    LET run == RunLength(r.r, s, i)
                        most == IF r.max # -1 /\ r.max < run THEN r.max ELSE run
                        good == {k \in r.min..most : Match(rest, s, i + k, c, ic).ok}
                    IN  IF good = {} THEN NoMatch
                        ELSE Match(rest, s, i + (IF r.greedy THEN Greatest(good) ELSE Least(good)), c, ic)
               [] r.t = "rep" /\ r.r.t # "set" ->
                    LET stop == IF r.min = 0 THEN Match(rest, s, i, c, ic) ELSE NoMatch
                        again == Rep(r.r, IF r.min = 0 THEN 0 ELSE r.min - 1,
                                     IF r.max = -1 THEN -1 ELSE r.max - 1, r.greedy)
                        more == IF r.max = 0 THEN NoMatch
                                ELSE Match(<<r.r, again>> \o rest, s, i, c, ic)
                    IN  IF r.greedy THEN (IF more.ok THEN more ELSE stop)
                        ELSE (IF stop.ok THEN stop ELSE more)
               [] r.t = "grp" -> Match(<<r.r, [t |-> "close", k |-> r.k, b |-> i]>> \o rest, s, i, c, ic)
               [] r.t = "close" -> Match(rest, s, i, [c EXCEPT ![r.k] = <<r.b, i>>], ic)
               [] r.t = "eos" -> IF i = Len(s) + 1 THEN Match(rest, s, i, c, ic) ELSE NoMatch
               [] r.t = "wb" ->
                    IF IsWordAt(s, i - 1) # IsWordAt(s, i) THEN Match(rest, s, i, c, ic) ELSE NoMatch

MatchAlt(rs, k, rest, s, i, c, ic) ==
    IF k > Len(rs) THEN NoMatch
    ELSE LET m == Match(<<rs[k]>> \o rest, s, i, c, ic)
         IN  IF m.ok THEN m ELSE MatchAlt(rs, k + 1, rest, s, i, c, ic)

\* re.match(pattern, s): a match at the start of s only.
match(r, s, ic) == Match(<<r>>, s, 1, NoGroups, ic)

\* re.search(pattern, s): the match at the leftmost position that has one.
search(r, s, ic) ==
    LET hits == {i \in 1..(Len(s) + 1) : Match(<<r>>, s, i, NoGroups, ic).ok}
    IN  IF hits = {} THEN NoMatch ELSE Match(<<r>>, s, Least(hits), NoGroups, ic)

\* match.group(k)
group(m, s, k) == SubSeq(s, m.c[k][1], m.c[k][2] - 1)

\* re.sub(pattern, repl, s): every non-overlapping match, leftmost first, replaced.
\* (None of the patterns substituted in the source matches the empty string.)
RECURSIVE SubFrom(_, _, _, _)
SubFrom(ends, repl, s, i) ==
    LET hits == {j \in DOMAIN ends : j >= i}
    IN  IF hits = {} THEN SubSeq(s, i, Len(s))
        ELSE LET b == Least(hits)
             IN  SubSeq(s, i, b - 1) \o repl \o SubFrom(ends, repl, s, ends[b])
sub(r, repl, s, ic) ==
    LET hits == {j \in 1..Len(s) : Match(<<r>>, s, j, NoGroups, ic).ok}
        ends == [j \in hits |-> Match(<<r>>, s, j, NoGroups, ic).e]
    IN  SubFrom(ends, repl, s, 1)

(***************************************************************************)
(* Optional values: Python's None and a present value                      *)
(***************************************************************************)
None == <<>>
Some(v) == <<v>>

(***************************************************************************)
(* datetime                                                                *)
(***************************************************************************)

IsLeap(y) == (y % 4 = 0 /\ y % 100 # 0) \/ y % 400 = 0
DaysInMonth(y, m) ==
    IF m = 2 THEN (IF IsLeap(y) THEN 29 ELSE 28)
    ELSE IF m \in {4, 6, 9, 11} THEN 30 ELSE 31

\* datetime + timedelta(days=n)
RECURSIVE AddDays(_, _)
AddDays(dt, n) ==
    IF n = 0 THEN dt
    ELSE AddDays(IF dt.d < DaysInMonth(dt.y, dt.mo) THEN [dt EXCEPT !.d = dt.d + 1]
                 ELSE IF dt.mo < 12 THEN [dt EXCEPT !.d = 1, !.mo = dt.mo + 1]
                 ELSE [dt EXCEPT !.d = 1, !.mo = 1, !.y = dt.y + 1],
                 n - 1)

\* the decimal digits of n, zero-padded to the width w (%Y, %m, %d, %H, %M, %S)
RECURSIVE Pad(_, _)
Pad(n, w) == IF w = 0 THEN <<>> ELSE Pad(n \div 10, w - 1) \o <<Digits[(n % 10) + 1]>>

\* dt.strftime('%Y-%m-%d %H:%M:%S+00:00')
strftime(dt) ==
    Str(Pad(dt.y, 4) \o <<"-">> \o Pad(dt.mo, 2) \o <<"-">> \o Pad(dt.d, 2) \o <<" ">>
        \o Pad(dt.h, 2) \o <<":">> \o Pad(dt.mi, 2) \o <<":">> \o Pad(dt.s, 2)) \o "+00:00"

MonthNames == <<"january", "february", "march", "april", "may", "june", "july", "august",
                "september", "october", "november", "december">>
MONTH == Words(MonthNames)

D == In(DigitSet)
S == In(SpaceSet)

\* dateutil.parser.parse on the fragments the extractor hands over: a month name, a
\* day and an optional year give that date at 00:00:00, the year defaulting to the
\* current one; a day the month does not have, and any other text reaching it
\* (a relative keyword written with more than one blank), is a ValueError.
DateutilPattern ==
    Seq_(<<Grp(1, MONTH), Plus(S), Grp(2, Rep(D, 1, 2, TRUE)), Eos>>)
DateutilPatternYear ==
    Seq_(<<MONTH, Plus(S), Rep(D, 1, 2, TRUE), Opt(Lit(",")), Plus(S), Grp(1, Rep(D, 4, 4, TRUE)), Eos>>)
MonthNumber(cs) == CHOOSE m \in 1..12 : Chars(MonthNames[m]) = lower(cs)
\* the date of a year, a month and a day at 00:00:00, if the calendar has it
Midnight(y, mo, d) ==
    IF y >= 1 /\ d >= 1 /\ d <= DaysInMonth(y, mo)
    THEN [ok |-> TRUE, dt |-> [y |-> y, mo |-> mo, d |-> d, h |-> 0, mi |-> 0, s |-> 0]]
    ELSE [ok |-> FALSE]
parse(date_str, now) ==
    LET md == match(Seq_(<<Grp(1, MONTH), Plus(S), Grp(2, Rep(D, 1, 2, TRUE))>>), date_str, TRUE)
        plain == match(DateutilPattern, date_str, TRUE)
        withyear == match(DateutilPatternYear, date_str, TRUE)
    IN  IF ~md.ok \/ (~plain.ok /\ ~withyear.ok) THEN [ok |-> FALSE]
        ELSE Midnight(IF withyear.ok THEN int(group(withyear, date_str, 1)) ELSE now.y,
                      MonthNumber(group(md, date_str, 1)),
                      int(group(md, date_str, 2)))

(***************************************************************************)
(* parse_date                                                              *)
(***************************************************************************)
\* what parse_date makes of the outcome of parse: a date that could not be parsed
\* is tomorrow, a parsed date without a time of day is set to 9 AM
FormatParsed(parsed_date, now) ==
    IF ~parsed_date.ok THEN strftime(AddDays(now, 1))
    ELSE IF parsed_date.dt.h = 0 /\ parsed_date.dt.mi = 0 /\ parsed_date.dt.s = 0
         THEN strftime([parsed_date.dt EXCEPT !.h = 9])
         ELSE strftime(parsed_date.dt)
parse_date(date_str, now) ==
    LET date_str_lower == lower(date_str)
    IN  IF IsSubstr(Chars("today"), date_str_lower) THEN strftime(now)
        ELSE IF IsSubstr(Chars("tomorrow"), date_str_lower) THEN strftime(AddDays(now, 1))
        ELSE IF IsSubstr(Chars("next week"), date_str_lower) THEN strftime(AddDays(now, 7))
        ELSE IF IsSubstr(Chars("next month"), date_str_lower) THEN strftime(AddDays(now, 30))
        ELSE FormatParsed(parse(date_str, now), now)

(***************************************************************************)
(* extract_reminder_info                                                   *)
(***************************************************************************)

\* \d+(?:\.\d{2})?
NUM == Seq_(<<Plus(D), Opt(Seq_(<<Lit("."), Rep(D, 2, 2, TRUE)>>))>>)

amount_patterns == <<
    Seq_(<<Lit("$"), Grp(1, NUM)>>),
    Seq_(<<Lit("amount"), Plus(S), Opt(Seq_(<<Lit("of"), Plus(S)>>)), Opt(Lit("$")), Grp(1, NUM)>>),
    Seq_(<<Grp(1, NUM), Star(S), Lit("dollar"), Opt(Lit("s"))>>),
    Seq_(<<Lit("pay"), Plus(S), Opt(Lit("$")), Grp(1, NUM)>> ) >>

\* float(str) with the digits after the point dropped
float_NoCents(cs) ==
    IF Len(cs) >= 3 /\ cs[Len(cs) - 2] = "." THEN 100 * int(SubSeq(cs, 1, Len(cs) - 3))
    ELSE 100 * int(cs)

\* float(str) of a \d+(?:\.\d{2})? string, in cents
float(cs) ==
    IF Len(cs) >= 3 /\ cs[Len(cs) - 2] = "."
    THEN 100 * int(SubSeq(cs, 1, Len(cs) - 3)) + int(SubSeq(cs, Len(cs) - 1, Len(cs)))
    ELSE 100 * int(cs)

\* the loop over amount_patterns: float() of such a group never fails, so the
\* first pattern that matches decides
RECURSIVE ExtractAmount(_, _)
ExtractAmount(text, k) ==
    IF k > Len(amount_patterns) THEN 0
    ELSE LET m == search(amount_patterns[k], text, TRUE)
         IN  IF m.ok THEN float(group(m, text, 1)) ELSE ExtractAmount(text, k + 1)

OnByDue == Seq_(<<Words(<<"on", "by", "due">>), Plus(S)>>)
DateSep == In({"-", "/"})
Relative ==
    Alt(<<Lit("tomorrow"), Lit("today"), Seq_(<<Lit("next"), Plus(S), Lit("week")>>),
          Seq_(<<Lit("next"), Plus(S), Lit("month")>>)>>)
MonthDay == Seq_(<<MONTH, Plus(S), Rep(D, 1, 2, TRUE),
                   Opt(Seq_(<<Opt(Lit(",")), Plus(S), Rep(D, 4, 4, TRUE)>>))>>)
NumericDate == Seq_(<<Rep(D, 1, 2, TRUE), DateSep, Rep(D, 1, 2, TRUE),
                      Opt(Seq_(<<DateSep, Rep(D, 2, 4, TRUE)>>))>>)

date_patterns == <<
    Seq_(<<OnByDue, Grp(1, MonthDay)>>),
    Seq_(<<OnByDue, Grp(1, NumericDate)>>),
    Seq_(<<OnByDue, Grp(1, Seq_(<<Rep(D, 4, 4, TRUE), Lit("-"), Rep(D, 1, 2, TRUE), Lit("-"),
                                  Rep(D, 1, 2, TRUE)>>))>>),
    Grp(1, Relative),
    Seq_(<<Opt(Seq_(<<Lit("in"), Plus(S)>>)), Grp(1, Plus(D)), Plus(S), Lit("day"), Opt(Lit("s"))>>) >>

\* the loop over date_patterns, then the default: [raised, due_date]
RECURSIVE ExtractDueDate(_, _, _)
\* the due date of a matched date_str: a fragment that starts with a digit is
\* taken for a number of days, and int() of it raises unless it is all digits
DueDateOf(date_str, now) ==
    IF match(Plus(D), date_str, FALSE).ok
    THEN (IF IsInt(date_str)
          THEN [raised |-> FALSE, due_date |-> strftime(AddDays(now, int(date_str)))]
          ELSE [raised |-> TRUE])
    ELSE [raised |-> FALSE, due_date |-> parse_date(date_str, now)]
ExtractDueDate(text, now, k) ==
    IF k > Len(date_patterns) THEN [raised |-> FALSE, due_date |-> parse_date(Chars("tomorrow"), now)]
    ELSE LET m == search(date_patterns[k], text, TRUE)
         IN  IF ~m.ok THEN ExtractDueDate(text, now, k + 1)
             ELSE DueDateOf(group(m, text, 1), now)

CategoryWord ==
    Alt(<<Lit("rent"), Lit("electricity"), Lit("water"), Lit("gas"),
          Seq_(<<Lit("credit"), Plus(S), Lit("card")>>), Lit("loan"), Lit("mortgage"),
          Lit("insurance"), Lit("subscription"), Lit("phone"), Lit("internet")>>)

category_patterns == <<
    Seq_(<<Words(<<"for", "category">>), Plus(S), Grp(1, CategoryWord)>>),
    Seq_(<<Grp(1, CategoryWord), Plus(S), Words(<<"payment", "bill">>)>>) >>

RECURSIVE ExtractCategory(_, _)
ExtractCategory(text, k) ==
    IF k > Len(category_patterns) THEN None
    ELSE LET m == search(category_patterns[k], text, TRUE)
         IN  IF m.ok THEN Some(Str(replace(group(m, text, 1), " ", "_")))
             ELSE ExtractCategory(text, k + 1)

recurrence_patterns == <<
    Seq_(<<Grp(1, Words(<<"weekly", "monthly", "yearly", "daily">>)), Plus(S),
           Words(<<"reminder", "payment">>)>>),
    Seq_(<<Words(<<"every", "repeat">>), Plus(S), Grp(1, Plus(D)), Plus(S),
           Grp(2, Alt(<<Seq_(<<Lit("day"), Opt(Lit("s"))>>), Seq_(<<Lit("week"), Opt(Lit("s"))>>),
                        Seq_(<<Lit("month"), Opt(Lit("s"))>>), Seq_(<<Lit("year"), Opt(Lit("s"))>>)>>))>>) >>

\* the loop over recurrence_patterns: [raised, recurrence, custom_recurrence_days]
RECURSIVE ExtractRecurrence(_, _)
\* the recurrence of a match: g1 is match.group(1), g2 is match.group(2), the
\* empty string where the pattern has no second group
RecurrenceOf(g1, g2) ==
    IF Str(g1) \in {"weekly", "monthly", "yearly", "daily"}
    THEN [raised |-> FALSE, recurrence |-> Some(Str(g1)), custom_recurrence_days |-> None]
    ELSE IF ~IsInt(g1) THEN [raised |-> TRUE]
    ELSE IF IsSubstr(Chars("day"), g2)
    THEN [raised |-> FALSE, recurrence |-> Some("custom"), custom_recurrence_days |-> Some(int(g1))]
    ELSE IF IsSubstr(Chars("week"), g2)
    THEN [raised |-> FALSE, recurrence |-> Some("custom"), custom_recurrence_days |-> Some(int(g1) * 7)]
    ELSE IF IsSubstr(Chars("month"), g2)
    THEN [raised |-> FALSE, recurrence |-> Some("custom"), custom_recurrence_days |-> Some(int(g1) * 30)]
    ELSE IF IsSubstr(Chars("year"), g2)
    THEN [raised |-> FALSE, recurrence |-> Some("custom"), custom_recurrence_days |-> Some(int(g1) * 365)]
    ELSE [raised |-> FALSE, recurrence |-> None, custom_recurrence_days |-> Some(int(g1))]
ExtractRecurrence(text, k) ==
    IF k > Len(recurrence_patterns)
    THEN [raised |-> FALSE, recurrence |-> None, custom_recurrence_days |-> None]
    ELSE LET m == search(recurrence_patterns[k], text, TRUE)
         IN  IF ~m.ok THEN ExtractRecurrence(text, k + 1)
             ELSE RecurrenceOf(group(m, text, 1), group(m, text, 2))

\* the substitutions that cut the title out of the phrase, in the order of the source
TitleCommandWords ==
    Seq_(<<WordB, Words(<<"create", "add", "set", "new", "reminder", "for", "to", "pay", "payment", "bill">>),
           WordB>>)
TitleAmount ==
    Seq_(<<Opt(Lit("$")), Plus(D), Opt(Seq_(<<Lit("."), Rep(D, 2, 2, TRUE)>>)), Star(S),
           Opt(Seq_(<<Lit("dollar"), Opt(Lit("s"))>>))>>)
TitleDateTail ==
    Seq_(<<WordB, Alt(<<Lit("on"), Lit("by"), Lit("due"), Lit("tomorrow"), Lit("today"),
                        Seq_(<<Lit("next"), Plus(S), Lit("week")>>),
                        Seq_(<<Lit("next"), Plus(S), Lit("month")>>)>>), WordB, Star(Dot)>>)
TitleInDays == Seq_(<<Lit("in"), Plus(S), Plus(D), Plus(S), Lit("day"), Opt(Lit("s"))>>)

\* str.title(): a letter that follows a letter is lowered, any other letter raised
title_case(cs) ==
    [i \in 1..Len(cs) |->
        IF i > 1 /\ cs[i - 1] \in LowerSet \cup UpperSet THEN LowerCh(cs[i]) ELSE UpperCh(cs[i])]

\* the category, if one was found, cut out of the title text
RemoveCategory(title_text, category) ==
    IF category # None
    THEN sub(LitCs(replace(Chars(category[1]), "_", " ")), <<>>, title_text, TRUE)
    ELSE title_text
\* the title with one default for every category
TitleOrDefault_NoCategory(title_text, category) ==
    IF title_text # <<>> THEN Str(title_text) ELSE "Payment Reminder"

\* the title: the text that is left or, if none is left, a default
TitleOrDefault(title_text, category) ==
    IF title_text # <<>> THEN Str(title_text)
    ELSE IF category # None
         THEN Str(title_case(replace(Chars(category[1]), "_", " "))) \o " Payment"
         ELSE "Payment Reminder"
ExtractTitle(text, category) ==
    LET t1 == sub(TitleCommandWords, <<>>, text, TRUE)
        t2 == sub(TitleAmount, <<>>, t1, FALSE)
        t3 == sub(TitleDateTail, <<>>, t2, TRUE)
        t4 == sub(NumericDate, <<>>, t3, FALSE)
        t5 == sub(MonthDay, <<>>, t4, TRUE)
        t6 == sub(TitleInDays, <<>>, t5, TRUE)
        t7 == RemoveCategory(t6, category)
        t8 == strip(sub(Plus(S), <<" ">>, t7, FALSE), SpaceSet)
    IN  TitleOrDefault(strip(t8, {".", ",", "!", "?"}), category)

\* extract_reminder_info(text), with datetime.now() = now; an exception leaving the
\* function is the result [raised |-> TRUE]
ReminderInfo(text, amount, due, category, rec) ==
    IF due.raised \/ rec.raised THEN [raised |-> TRUE]
    ELSE [raised |-> FALSE,
          title |-> ExtractTitle(text, category),
          amount |-> amount,
          due_date |-> due.due_date,
          category |-> category,
          recurrence |-> rec.recurrence,
          custom_recurrence_days |-> rec.custom_recurrence_days]
extract_reminder_info(text, now) ==
    ReminderInfo(text, ExtractAmount(text, 1), ExtractDueDate(text, now, 1),
                 ExtractCategory(text, 1), ExtractRecurrence(text, 1))

(***************************************************************************)
(* parse_reminder_request                                                  *)
(***************************************************************************)

DeleteVerb == Words(<<"delete", "remove", "cancel">>)

delete_patterns == <<
    Seq_(<<DeleteVerb, Plus(S), Lit("reminder"),
           Alt(<<Seq_(<<Star(S), Lit(":"), Star(S)>>), Plus(S)>>), Grp(1, Plus(Dot))>>),
    Seq_(<<DeleteVerb, Plus(S), Grp(1, PlusLazy(Dot)), Opt(Seq_(<<Plus(S), Lit("reminder")>>)), Eos>>),
    Seq_(<<Lit("remove"), Plus(S), Grp(1, Plus(Dot))>>),
    Seq_(<<Lit("cancel"), Plus(S), Grp(1, Plus(Dot))>>) >>

\* \b(?:reminder|the|my)\b
StrayWords == Seq_(<<WordB, Words(<<"reminder", "the", "my">>), WordB>>)

\* group(1).strip(), the stray words removed, .strip() again
CleanTitle(cs) == strip(sub(StrayWords, <<>>, strip(cs, SpaceSet), FALSE), SpaceSet)
\* `if title:` a title that is not empty is returned
TitleIfAny(title) == IF title # <<>> THEN Some(Str(title)) ELSE None

\* the loop over delete_patterns: the first pattern that matches decides, and a
\* title that comes out empty ends the loop (break)
RECURSIVE TryDelete(_, _)
TryDelete(user_input_lower, k) ==
    IF k > Len(delete_patterns) THEN None
    ELSE LET delete_match == search(delete_patterns[k], user_input_lower, FALSE)
         IN  IF ~delete_match.ok THEN TryDelete(user_input_lower, k + 1)
             ELSE TitleIfAny(CleanTitle(group(delete_match, user_input_lower, 1)))

ListCommands == {"list reminders", "show reminders", "my reminders", "view reminders"}
MarkCommands == {"mark as done", "complete reminder", "payment done"}

IsListCommand(user_input_lower) == \E cmd \in ListCommands : IsSubstr(Chars(cmd), user_input_lower)

MarkPattern ==
    Seq_(<<Words(<<"mark", "complete">>), Plus(S), Grp(1, PlusLazy(Dot)),
           Opt(Seq_(<<Plus(S), Lit("as"), Plus(S), Lit("done")>>)), Eos>>)

TryMarkDone(user_input_lower) ==
    IF \E cmd \in MarkCommands : IsSubstr(Chars(cmd), user_input_lower)
    THEN LET mark_match == search(MarkPattern, user_input_lower, FALSE)
         IN  IF ~mark_match.ok THEN None
             ELSE TitleIfAny(CleanTitle(group(mark_match, user_input_lower, 1)))
    ELSE None

create_patterns == <<
    Seq_(<<Words(<<"create", "add", "set", "new">>), Plus(S), Lit("reminder"), Plus(S), Grp(1, Plus(Dot))>>),
    Seq_(<<Lit("remind"), Plus(S), Lit("me"), Plus(S), Opt(Seq_(<<Lit("to"), Plus(S)>>)), Grp(1, Plus(Dot))>>),
    Seq_(<<Lit("set"), Plus(S), Opt(Seq_(<<Lit("a"), Plus(S)>>)), Lit("reminder"), Plus(S), Grp(1, Plus(Dot))>>),
    Seq_(<<Lit("add"), Plus(S), Lit("reminder"), Plus(S), Grp(1, Plus(Dot))>>) >>

\* the loop over create_patterns: the first pattern that matches returns, and an
\* exception of the extractor is caught by the function's except clause
RECURSIVE TryCreate(_, _, _)
\* the create request made of the extracted reminder_info
CreateRequest(reminder_info) ==
    IF reminder_info.raised THEN [action |-> "none"]
    ELSE [action |-> "create",
          title |-> reminder_info.title,
          amount |-> reminder_info.amount,
          due_date |-> reminder_info.due_date,
          category |-> reminder_info.category,
          recurrence |-> reminder_info.recurrence,
          custom_recurrence_days |-> reminder_info.custom_recurrence_days]
TryCreate(user_input, now, k) ==
    IF k > Len(create_patterns) THEN [action |-> "none"]
    ELSE LET m == search(create_patterns[k], user_input, TRUE)
         IN  IF ~m.ok THEN TryCreate(user_input, now, k + 1)
             ELSE CreateRequest(extract_reminder_info(group(m, user_input, 1), now))

\* the checks with the list check moved before the delete check
Classify_ListFirst(user_input, del, mark, now) ==
    IF IsListCommand(lower(user_input)) THEN [action |-> "list"]
    ELSE IF del # None THEN [action |-> "delete", title |-> del[1]]
    ELSE IF mark # None THEN [action |-> "mark_done", title |-> mark[1]]
    ELSE TryCreate(user_input, now, 1)

\* the order of the checks in parse_reminder_request: del and mark are the titles
\* the delete and the mark-done checks found, if any
Classify(user_input, del, mark, now) ==
    IF del # None THEN [action |-> "delete", title |-> del[1]]
    ELSE IF IsListCommand(lower(user_input)) THEN [action |-> "list"]
    ELSE IF mark # None THEN [action |-> "mark_done", title |-> mark[1]]
    ELSE TryCreate(user_input, now, 1)

\* parse_reminder_request(user_input), user_input a string, with datetime.now() = now
parse_reminder_request(user_input, now) ==
    Classify(Chars(user_input), TryDelete(lower(Chars(user_input)), 1),
             TryMarkDone(lower(Chars(user_input))), now)

(***************************************************************************)
(* The store: the table payment_reminders behind the supabase client.  A   *)
(* row is a record of the columns; the table is the sequence of its rows   *)
(* in insertion order.                                                     *)
(***************************************************************************)

Columns == {"id", "title", "due_date", "amount", "category", "recurrence",
            "custom_recurrence_days", "is_done"}

\* insert(reminder_data): the columns the payload leaves out are null
InsertedRow(reminder_data, id) ==
    [k \in Columns |->
        IF k = "id" THEN id
        ELSE IF k \in DOMAIN reminder_data THEN reminder_data[k]
        ELSE None]

\* the pattern language of ilike, letter case set aside: % stands for any text, _
\* for any one character, every other character for itself; the text as a whole
\* has to match the pattern
RECURSIVE Like(_, _)
Like(pattern, text) ==
    IF pattern = <<>> THEN text = <<>>
    ELSE IF pattern = <<"%">> THEN TRUE
    ELSE IF pattern[1] = "%"
    THEN \E k \in 0..Len(text) : Like(Tail(pattern), SubSeq(text, k + 1, Len(text)))
    ELSE /\ text # <<>>
         /\ pattern[1] = "_" \/ pattern[1] = text[1]
         /\ Like(Tail(pattern), Tail(text))

\* ilike("title", f"%{title}%"): the pattern is %, the text asked for as it is, and %
ILike(title, q) == Like(lower(Chars("%" \o q \o "%")), lower(Chars(title)))

\* a < b for two timestamps written by strftime (the order of the due_date column)
Earlier(a, b) ==
    LET ca == Chars(a)
        cb == Chars(b)
    IN  \E i \in 1..Len(ca) :
            /\ \A j \in 1..(i - 1) : ca[j] = cb[j]
            /\ ca[i] \in DigitSet /\ cb[i] \in DigitSet
            /\ DigitVal(ca[i]) < DigitVal(cb[i])

\* order("due_date"): the orders of the rows that ascend by due_date; rows of equal
\* due_date come in an order the store chooses
Ordered(rows) ==
    LET n == Len(rows)
        perms == {p \in [1..n -> 1..n] : \A i, j \in 1..n : i # j => p[i] # p[j]}
    IN  {[i \in 1..n |-> rows[p[i]]] : p \in
            {q \in perms : \A i \in 1..(n - 1) : ~Earlier(rows[q[i + 1]].due_date, rows[q[i]].due_date)}}

(***************************************************************************)
(* The reminder functions.  `outcome` is what the store does with the      *)
(* function's request: "ok", "raise" (the client raises) or "nodata" (an   *)
(* insert that returns no row).  Each result carries the table afterwards. *)
(***************************************************************************)

\* str.strip() of a string
strip_str(str) == Str(strip(Chars(str), SpaceSet))

create_reminder(table, id, title, due_date, amount, category, recurrence, custom_recurrence_days, outcome) ==
    LET all == [title |-> Some(strip_str(title)),
                due_date |-> Some(due_date),
                amount |-> Some(amount),
                category |-> category,
                recurrence |-> recurrence,
                custom_recurrence_days |-> custom_recurrence_days,
                is_done |-> Some(FALSE)]
        \* Remove None values
        reminder_data == [k \in {c \in DOMAIN all : all[c] # None} |->
                            IF k \in {"category", "recurrence", "custom_recurrence_days"}
                            THEN all[k] ELSE all[k][1]]
        row == InsertedRow(reminder_data, id)
    IN  IF outcome = "raise" THEN [success |-> FALSE, message |-> "Database error", table |-> table]
        ELSE IF outcome = "nodata"
        THEN [success |-> FALSE, message |-> "Failed to create reminder", table |-> table]
        ELSE [success |-> TRUE, data |-> row, message |-> "Reminder created successfully!",
              table |-> Append(table, row)]

IsPending(r) == r.is_done = FALSE
AnyRow(r) == TRUE

\* list_reminders without the filter on is_done
list_reminders_Unfiltered(table, show_all, outcome) ==
    IF outcome = "raise" THEN {[success |-> FALSE, message |-> "Database error"]}
    ELSE {[success |-> TRUE, data |-> rows] : rows \in Ordered(table)}

\* the results list_reminders can return: one for each order the store may give
list_reminders(table, show_all, outcome) ==
    IF outcome = "raise" THEN {[success |-> FALSE, message |-> "Database error"]}
    ELSE {[success |-> TRUE, data |-> rows] :
            rows \in Ordered(IF show_all THEN SelectSeq(table, AnyRow) ELSE SelectSeq(table, IsPending))}

\* str.split(): the words of a string, its maximal runs of non-blank characters
split(cs) ==
    LET n == Len(cs)
    IN  {SubSeq(cs, w[1], w[2]) : w \in
            {v \in (1..n) \X (1..n) :
                /\ v[1] <= v[2]
                /\ \A k \in v[1]..v[2] : cs[k] \notin SpaceSet
                /\ v[1] = 1 \/ cs[v[1] - 1] \in SpaceSet
                /\ v[2] = n \/ cs[v[2] + 1] \in SpaceSet}}

\* the first n elements of a list (list[:n])
Take(list, n) == SubSeq(list, 1, IF Len(list) < n THEN Len(list) ELSE n)

\* delete_reminder(title=title): the branch taken for a title
delete_reminder(table, title, outcome) ==
    LET Partial(r) == ILike(r.title, title)
        Exact(r) == r.title = title
        found == IF SelectSeq(table, Partial) # <<>> THEN SelectSeq(table, Partial)
                 ELSE SelectSeq(table, Exact)
        \* the comprehension's own variable hides the title asked for
        reminder_titles == [i \in 1..Len(table) |-> lower(Chars(table[i].title))]
        Suggested(t) == \E word \in split(t) : IsSubstr(word, t)
        suggestions == SelectSeq(reminder_titles, Suggested)
        result == IF SelectSeq(table, Partial) # <<>> THEN SelectSeq(table, Partial)
                  ELSE SelectSeq(table, Exact)
        Kept(r) == \A i \in 1..Len(result) : result[i].id # r.id
        deleted_count == Len(result)
    IN  IF title = "" THEN [success |-> FALSE, message |-> "Please specify", table |-> table]
        ELSE IF outcome = "raise" THEN [success |-> FALSE, message |-> "Database error", table |-> table]
        ELSE IF found = <<>>
        THEN (IF suggestions # <<>>
              THEN [success |-> FALSE, message |-> "No reminder found. Did you mean",
                    suggestions |-> [i \in 1..Len(Take(suggestions, 3)) |-> Str(suggestions[i])],
                    table |-> table]
              ELSE [success |-> FALSE, message |-> "No reminder found", suggestions |-> <<>>,
                    table |-> table])
        ELSE IF deleted_count > 0
        THEN [success |-> TRUE,
              message |-> IF deleted_count = 1 THEN "Reminder deleted" ELSE "reminders deleted",
              deleted |-> result,
              deleted_count |-> deleted_count,
              table |-> SelectSeq(table, Kept)]
        ELSE [success |-> FALSE, message |-> "Failed to delete reminder", table |-> table]

\* mark_reminder_done with an update that flips is_done instead of setting it
mark_reminder_done_Flip(table, title, outcome) ==
    LET Partial(r) == ILike(r.title, title)
        Hit(r) == Partial(r) \/ (SelectSeq(table, Partial) = <<>> /\ r.title = title)
    IN  IF title = "" \/ outcome = "raise" \/ SelectSeq(table, Hit) = <<>>
        THEN [success |-> FALSE, message |-> "No reminder found", table |-> table]
        ELSE [success |-> TRUE, message |-> "Reminder marked as done",
              table |-> [i \in 1..Len(table) |->
                            IF Hit(table[i]) THEN [table[i] EXCEPT !.is_done = ~table[i].is_done]
                            ELSE table[i]]]

\* mark_reminder_done(title=title): the branch taken for a title
mark_reminder_done(table, title, outcome) ==
    LET Partial(r) == ILike(r.title, title)
        Exact(r) == r.title = title
        hit == IF SelectSeq(table, Partial) # <<>> THEN SelectSeq(table, Partial)
               ELSE SelectSeq(table, Exact)
        Hit(r) == \E i \in 1..Len(hit) : hit[i].id = r.id
        result == [i \in 1..Len(hit) |-> [hit[i] EXCEPT !.is_done = TRUE]]
    IN  IF title = "" THEN [success |-> FALSE, message |-> "Please specify", table |-> table]
        ELSE IF outcome = "raise" THEN [success |-> FALSE, message |-> "Database error", table |-> table]
        ELSE IF result # <<>>
        THEN [success |-> TRUE,
              message |-> IF Len(result) = 1 THEN "Reminder marked as done" ELSE "reminders marked as done",
              updated |-> result,
              table |-> [i \in 1..Len(table) |->
                            IF Hit(table[i]) THEN [table[i] EXCEPT !.is_done = TRUE] ELSE table[i]]]
        ELSE [success |-> FALSE, message |-> "No reminder found", table |-> table]

(***************************************************************************)
(* State                                                                   *)
(***************************************************************************)
VARIABLES
    now,         \* datetime.now() of the session
    phrase,      \* the argument of extract_reminder_info under check
    info,        \* its result
    user_input,  \* the utterance read last
    request,     \* parse_reminder_request(user_input)
    store,       \* the table payment_reminders
    next_id,     \* the id the store gives to the next row
    reply,       \* what financial_chat returned for user_input
    prev,        \* the request of the turn before, when that turn created a reminder
    running,     \* the console loop has not ended
    classified   \* parse_reminder_request of every utterance the console can read

vars == <<now, phrase, info, user_input, request, store, next_id, reply, prev, running, classified>>

NotRun == [action |-> "not run"]

\* the instants a session is run at
Nows == {[y |-> 2026, mo |-> 11, d |-> 5, h |-> 14, mi |-> 30, s |-> 0],
         [y |-> 2027, mo |-> 12, d |-> 31, h |-> 23, mi |-> 59, s |-> 59]}

\* words joined by single blanks, empty words left out
RECURSIVE Join(_)
Join(words) ==
    IF words = <<>> THEN ""
    ELSE IF words[1] = "" THEN Join(Tail(words))
    ELSE IF Join(Tail(words)) = "" THEN words[1]
    ELSE words[1] \o " " \o Join(Tail(words))

\* the sequences of at most n elements of a set
RECURSIVE UpTo(_, _)
UpTo(set, n) ==
    IF n = 0 THEN {<<>>}
    ELSE UpTo(set, n - 1) \cup {Append(w, x) : w \in UpTo(set, n - 1), x \in set}

(***************************************************************************)
(* The pure functions under check: an input is drawn, the function applied *)
(***************************************************************************)

\* numbers written into the generated phrases run from 0 to MaxN
MaxN == 2
\* the utterances generated from words have at most MaxWords words
MaxWords == 3

\* the decimal digits of n
RECURSIVE Decimal(_)
Decimal(n) == IF n < 10 THEN Digits[n + 1] ELSE Decimal(n \div 10) \o Digits[(n % 10) + 1]

AmountForms == {"$12.50", "amount of $12.50", "12.50 dollars", "pay $12.50"}
DateForms == {"by August 15", "on february 30", "due March 1, 2028", "on 8/15", "by 15-08-2026",
              "due 2026-08-15", "tomorrow", "Today", "next  week", "next month"}
               \cup {"in " \o Decimal(n) \o " days" : n \in 0..MaxN}
CategoryForms == {"for rent", "for Rent", "electricity bill", "credit card payment",
                  "credit  card bill", "category INTERNET"}
RecurrenceForms == {"weekly payment", "Weekly payment", "DAILY reminder", "monthly reminder"}
                    \cup {kw \o " " \o Decimal(n) \o " " \o unit :
                            kw \in {"every", "repeat"}, n \in 0..MaxN,
                            unit \in {"day", "weeks", "Weeks", "months", "YEARS"}}
\* text without an amount, a date, a category or a recurrence
PlainTexts == {"", "call bob", "unit 7", "flat 3.5 b", "gym ."}
\* text that holds an amount of its own
AmountTexts == {"$5 and", "20 dollars", "amount 7", "pay 3"}

\* what a phrase starts with and what it ends with
Prefixes == PlainTexts \cup AmountTexts
Suffixes == {"", "please", "$3"}

Phrases ==
    {Join(<<pre, form, post>>) :
        pre \in Prefixes,
        form \in AmountForms \cup DateForms \cup CategoryForms \cup RecurrenceForms \cup {""},
        post \in Suffixes} \ {""}

InitExtract ==
    /\ now \in Nows
    /\ phrase \in Phrases
    /\ info = NotRun
    /\ user_input = "" /\ request = NotRun /\ store = <<>> /\ next_id = 1
    /\ reply = NotRun /\ prev = NotRun /\ running = TRUE /\ classified = <<>>

Extract ==
    /\ info = NotRun
    /\ info' = extract_reminder_info(Chars(phrase), now)
    /\ UNCHANGED <<now, phrase, user_input, request, store, next_id, reply, prev, running, classified>>

SpecExtract == InitExtract /\ [][Extract]_vars

\* the examples the console prints at its start (src/app.py, lines 524 to 527)
BannerCreate == "Create reminder to pay electricity bill $150 by August 15"
BannerMarkDone == "Mark rent payment as done"
BannerList == "List all reminders"
BannerDelete == "Delete my Netflix subscription reminder"

Examples ==
    {BannerCreate, BannerMarkDone, BannerList, BannerDelete,
     "create reminder to pay electricity bill $150 by August 15",
     "list reminders", "show reminders", "delete reminder: Netflix",
     "remind me to pay rent by 8/15", "set a reminder for rent due 2026-08-15",
     "remove gym", "remove the reminder", "delete reminder : gym", "cancel the gym reminder",
     "add reminder call bob in 2 days", "new reminder gym 20 dollars every 2 weeks",
     "create reminder Weekly payment for rent", "complete reminder rent",
     "how do I save money"}

ParseWords == {"cancel", "delete reminder", "my", "gym", "list reminders", "mark as done",
               "add reminder"}

Utterances == Examples \cup ({Join(w) : w \in UpTo(ParseWords, MaxWords)} \ {""})

InitParse ==
    /\ now \in Nows
    /\ user_input \in Utterances
    /\ request = NotRun
    /\ phrase = "" /\ info = NotRun /\ store = <<>> /\ next_id = 1
    /\ reply = NotRun /\ prev = NotRun /\ running = TRUE /\ classified = <<>>

Parse ==
    /\ request = NotRun
    /\ request' = parse_reminder_request(user_input, now)
    /\ UNCHANGED <<now, phrase, info, user_input, store, next_id, reply, prev, running, classified>>

SpecParse == InitParse /\ [][Parse]_vars

(***************************************************************************)
(* The console loop and financial_chat                                     *)
(***************************************************************************)

\* the store takes at most MaxReminders inserts in a session
MaxReminders == 2

\* what the store, or the conversation chain, does with a call
Outcomes == {"ok", "raise", "nodata"}

ChatInputs ==
    {"add reminder call bob .",
     "create reminder to pay electricity bill $150 by August 15",
     "remind me to renew gym tomorrow",
     "new reminder gym 20 dollars every 2 Weeks",
     "delete gym", "delete netflix", "delete %",
     "complete reminder gym", "complete reminder %",
     "list reminders", "show all my reminders", "view reminders for wallet",
     "how do I save money"}

Init ==
    /\ now \in {n \in Nows : n.y = 2026}
    /\ user_input = "" /\ request = NotRun /\ reply = NotRun /\ prev = NotRun
    /\ store = <<>> /\ next_id = 1
    /\ running = TRUE
    \* parse_reminder_request depends on the utterance and the clock alone: its results
    \* for the utterances of the session are computed once
    /\ classified = [u \in ChatInputs |-> parse_reminder_request(u, now)]
    /\ phrase = "" /\ info = NotRun

\* the create branch of financial_chat
ChatCreate(req, outcome) ==
    LET result == create_reminder(store, next_id, req.title, req.due_date, req.amount,
                                  req.category, req.recurrence, req.custom_recurrence_days, outcome)
    IN  /\ next_id <= MaxReminders
        /\ store' = result.table
        /\ next_id' = IF result.success THEN next_id + 1 ELSE next_id
        /\ reply' = IF result.success THEN [kind |-> "created", reminder |-> result.data]
                    ELSE [kind |-> "create_failed", message |-> result.message]

\* the delete branch
ChatDelete(req, outcome) ==
    LET result == delete_reminder(store, req.title, outcome)
    IN  /\ outcome # "nodata"
        /\ store' = result.table
        /\ next_id' = next_id
        /\ reply' = IF result.success
                    THEN [kind |-> "deleted", deleted_count |-> result.deleted_count,
                          message |-> result.message]
                    ELSE [kind |-> "delete_failed", message |-> result.message,
                          suggestions |-> IF "suggestions" \in DOMAIN result
                                          THEN result.suggestions ELSE <<>>]

\* the mark_done branch
ChatMarkDone(req, outcome) ==
    LET result == mark_reminder_done(store, req.title, outcome)
    IN  /\ outcome # "nodata"
        /\ store' = result.table
        /\ next_id' = next_id
        /\ reply' = IF result.success THEN [kind |-> "marked_done", message |-> result.message]
                    ELSE [kind |-> "mark_done_failed", message |-> result.message]

\* the list branch
ChatList(u, outcome) ==
    LET show_all == \/ IsSubstr(Chars("all"), lower(Chars(u)))
                    \/ IsSubstr(Chars("completed"), lower(Chars(u)))
    IN  /\ outcome # "nodata"
        /\ \E result \in list_reminders(store, show_all, outcome) :
              reply' = IF ~result.success THEN [kind |-> "list_failed", message |-> result.message]
                       ELSE IF result.data = <<>> THEN [kind |-> "list_empty"]
                       ELSE [kind |-> "list", show_all |-> show_all, entries |-> result.data]
        /\ UNCHANGED <<store, next_id>>

\* the none branch with the except clause of financial_chat left out
ChatNone_Uncaught(u, outcome) ==
    /\ reply' = IF outcome = "ok" THEN [kind |-> "advice"] ELSE [kind |-> "raised"]
    /\ UNCHANGED <<store, next_id>>

\* no reminder command: the utterance goes to the conversation chain; a chain that
\* raises, or returns nothing (so that response["response"] raises), is caught by
\* the except clause of financial_chat
ChatNone(u, outcome) ==
    /\ reply' = IF outcome = "ok" THEN [kind |-> "advice"] ELSE [kind |-> "error"]
    /\ UNCHANGED <<store, next_id>>

\* one turn of the console loop: an utterance is read and financial_chat answers it
financial_chat(u, outcome) ==
    LET req == classified[u]
    IN  /\ running
        /\ Str(lower(Chars(u))) \notin {"exit", "quit"}
        /\ user_input' = u
        /\ request' = req
        /\ \/ req.action = "create" /\ ChatCreate(req, outcome)
           \/ req.action = "delete" /\ ChatDelete(req, outcome)
           \/ req.action = "mark_done" /\ ChatMarkDone(req, outcome)
           \/ req.action = "list" /\ ChatList(u, outcome)
           \/ req.action = "none" /\ ChatNone(u, outcome)
        /\ prev' = IF reply # NotRun /\ reply.kind = "created" THEN request ELSE NotRun
        /\ UNCHANGED <<now, phrase, info, running, classified>>

\* the utterance exit or quit, or an interrupt, ends the loop
Exit ==
    /\ running
    /\ running' = FALSE
    /\ UNCHANGED <<now, phrase, info, user_input, request, store, next_id, reply, prev, classified>>

Next ==
    \/ \E u \in ChatInputs, outcome \in Outcomes : financial_chat(u, outcome)
    \/ Exit

Spec == Init /\ [][Next]_vars

(***************************************************************************)
(* Properties of parse_reminder_request (checked under SpecParse)          *)
(***************************************************************************)

\* the request is the result of parse_reminder_request(user_input)
Parsed == request # NotRun

ExampleCreate == "create reminder to pay electricity bill $150 by August 15"
\* August 15 of the current year at 09:00:00
August15At9 == strftime([y |-> now.y, mo |-> 8, d |-> 15, h |-> 9, mi |-> 0, s |-> 0])

\* the fields of the example other than its title
ExampleFields ==
    /\ request.action = "create"
    /\ request.amount = 15000
    /\ request.due_date = August15At9
    /\ request.category = Some("electricity")
    /\ request.recurrence = None
    /\ request.custom_recurrence_days = None

\* C1 as stated: the example utterance is classified create with a title that
\* contains "electricity bill", amount 150.0, due_date August 15 at 09:00:00,
\* category electricity, recurrence and custom_recurrence_days absent.
C1_ExampleTitleContainsBill ==
    (Parsed /\ user_input = ExampleCreate) =>
        /\ ExampleFields
        /\ IsSubstr(Chars("electricity bill"), lower(Chars(request.title)))

\* C1 amended: the example utterance is classified create with amount 150.0,
\* due_date August 15 at 09:00:00, category electricity, recurrence and
\* custom_recurrence_days absent; the command words, the amount, the date and the
\* category are all cut out of the text, nothing is left, and the title is the
\* default made from the category, "Electricity Payment".
C1_ExampleTitleIsDefault ==
    (Parsed /\ user_input = ExampleCreate) =>
        /\ ExampleFields
        /\ request.title = "Electricity Payment"

C1_Witness ==
    Parsed /\ user_input = ExampleCreate /\ request.action = "create" /\ request.title # ""

\* C2: each of the four examples of the banner is classified as the operation it
\* advertises: create, mark_done, list and delete.
C2_BannerExamplesDispatched ==
    Parsed =>
        /\ user_input = BannerCreate => request.action = "create"
        /\ user_input = BannerMarkDone => request.action = "mark_done"
        /\ user_input = BannerList => request.action = "list"
        /\ user_input = BannerDelete => request.action = "delete"

\* the cleaned <rest> the k-th delete pattern captures in the lower-cased utterance
DeleteMatches(k) == search(delete_patterns[k], lower(Chars(user_input)), FALSE).ok
DeleteRest(k) ==
    CleanTitle(group(search(delete_patterns[k], lower(Chars(user_input)), FALSE),
                     lower(Chars(user_input)), 1))
DeleteCaptures(k) == DeleteMatches(k) /\ DeleteRest(k) # <<>>
PatternsMatching == {k \in 1..Len(delete_patterns) : DeleteMatches(k)}

\* what the checks after the delete check make of the utterance
ListMarkCreate ==
    IF IsListCommand(lower(Chars(user_input))) THEN request = [action |-> "list"]
    ELSE IF TryMarkDone(lower(Chars(user_input))) # None
    THEN request = [action |-> "mark_done", title |-> TryMarkDone(lower(Chars(user_input)))[1]]
    ELSE request = TryCreate(Chars(user_input), now, 1)

\* C3 as stated: whenever any of the four delete patterns captures a <rest> that is
\* not empty after the stray words are stripped the result is delete with such a
\* rest as its title, whatever else the utterance holds; when every delete pattern
\* yields an empty rest the classification goes on with list, mark_done and create.
C3_AnyDeletePatternWins ==
    Parsed =>
        IF \E k \in 1..Len(delete_patterns) : DeleteCaptures(k)
        THEN /\ request.action = "delete"
             /\ \E k \in 1..Len(delete_patterns) :
                    DeleteCaptures(k) /\ request.title = Str(DeleteRest(k))
        ELSE ListMarkCreate

\* C3 amended: the intents are checked in the order delete, list, mark_done, create.
\* Of the four delete patterns only the first one, in their order, that matches the
\* utterance is considered: if its <rest> is not empty after the stray words are
\* stripped the result is delete with that rest as its title, whatever else the
\* utterance holds; if its rest is empty, or no delete pattern matches, the
\* classification goes on with list, mark_done and create.
C3_FirstDeletePatternDecides ==
    Parsed =>
        IF PatternsMatching # {} /\ DeleteCaptures(Least(PatternsMatching))
        THEN request = [action |-> "delete", title |-> Str(DeleteRest(Least(PatternsMatching)))]
        ELSE ListMarkCreate

\* a delete that wins over a list phrase, and a later delete pattern left untried
C3_Witness ==
    \/ Parsed /\ user_input = "cancel list reminders" /\ request.action = "delete"
    \/ Parsed /\ user_input = "cancel delete reminder my" /\ request.action = "none"
                /\ DeleteCaptures(2)

(***************************************************************************)
(* Properties of extract_reminder_info (checked under SpecExtract)         *)
(***************************************************************************)

\* info is the result of extract_reminder_info(phrase), which returned
Extracted == info # NotRun /\ ~info.raised

\* C4: for every phrase extract_reminder_info returns without raising, with a
\* due_date in its result (so that a create pattern that matches always gives create).
C4_ExtractNeverRaises ==
    info # NotRun => (~info.raised /\ info.due_date # "")

\* a text in which one of the amount patterns finds a match
AmountLike(str) == \E k \in 1..Len(amount_patterns) : search(amount_patterns[k], Chars(str), TRUE).ok

FixedRecurrences == {"daily", "weekly", "monthly", "yearly"}

\* C6: every result has recurrence and custom_recurrence_days both absent, or a
\* fixed recurrence without custom_recurrence_days, or the recurrence custom with
\* custom_recurrence_days a positive integer.
C6_RecurrenceShape ==
    Extracted =>
        \/ info.recurrence = None /\ info.custom_recurrence_days = None
        \/ /\ info.recurrence # None /\ info.recurrence[1] \in FixedRecurrences
           /\ info.custom_recurrence_days = None
        \/ /\ info.recurrence = Some("custom")
           /\ info.custom_recurrence_days # None /\ info.custom_recurrence_days[1] > 0

Vocabulary == {"rent", "electricity", "water", "gas", "credit_card", "loan", "mortgage",
               "insurance", "subscription", "phone", "internet"}

\* C7: the category of every result is absent or one of the eleven values of the
\* vocabulary, whatever the letter case and the white space of the phrase.
C7_CategoryInVocabulary ==
    Extracted => (info.category = None \/ info.category[1] \in Vocabulary)

(***************************************************************************)
(* Properties of the console session (checked under Spec)                  *)
(***************************************************************************)

\* financial_chat answered the last utterance with a list of reminders
Listed == reply # NotRun /\ reply.kind \in {"list", "list_empty"}
\* the rows the numbered entries of the reply are written from
entries == IF reply.kind = "list" THEN reply.entries ELSE <<>>
\* the utterance asks for the completed reminders too
AsksForAll ==
    \/ IsSubstr(Chars("all"), lower(Chars(user_input)))
    \/ IsSubstr(Chars("completed"), lower(Chars(user_input)))
\* the positions in the store of the reminders the utterance asks for
Wanted == {i \in 1..Len(store) : AsksForAll \/ store[i].is_done = FALSE}

\* C8: the entries of a list reply are exactly the stored reminders that are not
\* done when the utterance holds neither "all" nor "completed", and exactly all
\* stored reminders otherwise, each once, in ascending order of due_date; the
\* invitation to create a reminder is given exactly when there are none.
C8_ListShowsWantedInOrder ==
    Listed =>
        /\ Len(entries) = Cardinality(Wanted)
        /\ {entries[i] : i \in 1..Len(entries)} = {store[i] : i \in Wanted}
        /\ \A i \in 1..(Len(entries) - 1) : ~Earlier(entries[i + 1].due_date, entries[i].due_date)
        /\ (reply.kind = "list_empty") <=> (Wanted = {})

\* a list of the pending reminders that leaves a done one out, in an order that is
\* not the order of insertion
C8_Witness ==
    /\ Listed /\ ~AsksForAll
    /\ Len(store) = 2 /\ Len(entries) = 1
    /\ \E i \in 1..Len(store) : store[i].is_done = TRUE

C8_WitnessOrder ==
    /\ Listed /\ Len(entries) = 2
    /\ entries[1] = store[2] /\ Earlier(entries[1].due_date, entries[2].due_date)

\* the words of a string
WordsOf(str) == split(lower(Chars(str)))

\* C9: when a delete finds no reminder the reply suggests at most 3 stored titles,
\* each sharing a word with the title asked for; when no stored title shares a
\* word with it no suggestion is given.
C9_SuggestionsShareWord ==
    (reply # NotRun /\ reply.kind = "delete_failed") =>
        /\ Len(reply.suggestions) <= 3
        /\ \A i \in 1..Len(reply.suggestions) :
              WordsOf(reply.suggestions[i]) \cap WordsOf(request.title) # {}
        /\ (\A j \in 1..Len(store) : WordsOf(store[j].title) \cap WordsOf(request.title) = {})
              => reply.suggestions = <<>>

\* C10: a list of the pending reminders that follows a successful create holds a
\* reminder that is not done and whose title, amount, due_date, category,
\* recurrence and custom_recurrence_days are those of the create request.
C10_CreatedIsListed ==
    (prev # NotRun /\ Listed /\ ~AsksForAll) =>
        \E i \in 1..Len(entries) :
            /\ entries[i].title = prev.title
            /\ entries[i].amount = prev.amount
            /\ entries[i].due_date = prev.due_date
            /\ entries[i].category = prev.category
            /\ entries[i].recurrence = prev.recurrence
            /\ entries[i].custom_recurrence_days = prev.custom_recurrence_days
            /\ entries[i].is_done = FALSE

\* the replies that are a string for the user
UserFacing == {"created", "create_failed", "deleted", "delete_failed", "marked_done",
               "mark_done_failed", "list", "list_empty", "list_failed", "advice", "error"}

\* C11: whatever the store or the conversation chain does with a call (answer,
\* raise, return nothing), financial_chat returns a string for the user and the
\* console loop goes on; only the step that reads exit or quit, or is interrupted,
\* ends the loop, and that step is no turn of financial_chat.
C11_ChatAlwaysAnswers ==
    [][/\ reply' # NotRun => reply'.kind \in UserFacing
       /\ (reply' # reply \/ store' # store \/ user_input' # user_input) => running'
       /\ (running /\ ~running') => UNCHANGED <<user_input, request, reply, store, next_id, prev>>]_vars

\* the chain failed, the user was told so, and the loop reads on
C11_Witness ==
    /\ reply # NotRun /\ reply.kind = "error" /\ request.action = "none"
    /\ running

\* the title of the stored reminder r holds q, letter case ignored
Contains(r, q) == IsSubstr(lower(Chars(q)), lower(Chars(r.title)))
\* the positions in the store of the reminders a title q stands for: those whose
\* title holds q or, if there is none, those whose title is q
Matching(q) ==
    IF \E i \in 1..Len(store) : Contains(store[i], q)
    THEN {i \in 1..Len(store) : Contains(store[i], q)}
    ELSE {i \in 1..Len(store) : store[i].title = q}
\* the store after the step holds the rows of the positions kept, as they were
Keeps(kept) ==
    /\ Len(store') = Cardinality(kept)
    /\ \A i \in kept : \E j \in 1..Len(store') : store'[j] = store[i]

\* C12: a turn with a delete intent for the title q that succeeds removes every
\* reminder whose title holds q, letter case ignored (or, if there is none, every
\* reminder whose title is q) and no other, and reports their number; a delete
\* that finds no such reminder leaves the store unchanged and reports failure.
C12_DeleteRemovesMatching ==
    [][(running' /\ request'.action = "delete") =>
          /\ reply'.kind = "deleted" =>
                /\ Matching(request'.title) # {}
                /\ Keeps((1..Len(store)) \ Matching(request'.title))
                /\ reply'.deleted_count = Cardinality(Matching(request'.title))
          /\ Matching(request'.title) = {} => (store' = store /\ reply'.kind = "delete_failed")]_vars

\* C13: a turn with a mark_done intent for the title q sets is_done on every stored
\* reminder whose title holds q, letter case ignored (or, if there is none, on every
\* reminder whose title is q), changes no other field and no other reminder, and
\* removes or adds none; when no reminder matches, the store is unchanged and the
\* reply says that no reminder was found.
C13_MarkDoneSetsMatching ==
    [][(running' /\ request'.action = "mark_done") =>
          /\ Len(store') = Len(store)
          /\ \A i \in 1..Len(store) :
                \/ store'[i] = store[i]
                \/ i \in Matching(request'.title) /\ store'[i] = [store[i] EXCEPT !.is_done = TRUE]
          /\ reply'.kind = "marked_done" =>
                /\ Matching(request'.title) # {}
                /\ \A i \in Matching(request'.title) : store'[i].is_done = TRUE
          /\ Matching(request'.title) = {} =>
                (store' = store /\ reply'.kind = "mark_done_failed")]_vars

\* the ids of the reminders in a table
Ids(table) == {table[i].id : i \in 1..Len(table)}
\* the reminder of an id in a table
RowOf(table, id) == table[CHOOSE i \in 1..Len(table) : table[i].id = id]

\* C14: a step changes the store only by the insert of one new reminder that is
\* not done (create intent), by the removal of reminders (delete intent) or by
\* setting is_done (mark_done intent); is_done never goes from true back to false;
\* a list or a none intent leaves the store as it is, and the conversation chain
\* answers for a none intent only.
C14_StoreChangesByIntent ==
    [][/\ store' # store =>
          \/ /\ request'.action = "create"
             /\ \E row \in {store'[Len(store')]} :
                   /\ store' = Append(store, row)
                   /\ row.is_done = FALSE /\ row.id \notin Ids(store)
          \/ /\ request'.action = "delete"
             /\ Ids(store') \subseteq Ids(store) /\ Len(store') < Len(store)
             /\ \A id \in Ids(store') : RowOf(store', id) = RowOf(store, id)
          \/ /\ request'.action = "mark_done"
             /\ Len(store') = Len(store)
             /\ \A i \in 1..Len(store) :
                   store'[i] \in {store[i], [store[i] EXCEPT !.is_done = TRUE]}
       /\ \A id \in Ids(store) \cap Ids(store') :
             RowOf(store, id).is_done = TRUE => RowOf(store', id).is_done = TRUE
       /\ (running' /\ request'.action \in {"list", "none"}) => store' = store
       /\ (running' /\ reply'.kind \in {"advice", "error"}) => request'.action = "none"]_vars

\* a mark_done has just been answered with success while the store holds a
\* reminder that is done and, created before it, one that is still pending
C14_Witness ==
    /\ reply # NotRun /\ reply.kind = "marked_done" /\ prev = NotRun
    /\ Len(store) = 2 /\ store[1].is_done = FALSE /\ store[2].is_done = TRUE

====
